---- MODULE Spec2Model ----
(***************************************************************************)
(* Cart pricing and aggregation flow of the catering API.                  *)
(*                                                                         *)
(* The relational store is the pair (carts, items); a CartItem row carries *)
(* its CartItemExtra rows (cascade ownership).  Row identifiers are the    *)
(* positions in the sequences, so rows appear in insertion order.          *)
(* Money is counted in hundredths (100.00 is 10000).                       *)
(***************************************************************************)
EXTENDS Integers, Sequences, FiniteSets, TLC

VARIABLES
    carts,    \* Cart rows, in insertion order
    items,    \* CartItem rows, each with its CartItemExtra rows
    last,     \* the most recent request, its response, and the store before it
    nops,     \* number of requests handled so far
    attrs,    \* the attrs CartItemWriteSerializer.validate is given and returns
    txn,      \* the add_item requests in flight, each in its own transaction
    accounts, \* Account rows, by email
    outbox,   \* the signed tokens that were emailed
    now,      \* the clock, in seconds
    resp,     \* the most recent userauth request and its response
    menu,     \* dish availability, the featured-dish cache, the last response
    bookings, \* Booking rows, in insertion order
    booked,   \* the most recent create_booking request and its response
    categories, \* Category rows, in insertion order
    saved,    \* the most recent Category.save and what it found
    patched   \* the most recent PATCH of the profile endpoint

vars ==
    <<carts, items, last, nops, attrs, txn, accounts, outbox, now, resp, menu,
      bookings, booked, categories, saved, patched>>
shop == <<carts, items, last, nops, attrs, txn>>
auth == <<accounts, outbox, now, resp>>
book == <<bookings, booked>>
shelf == <<categories, saved>>
desk == <<book, shelf, patched>>

\* ------------------------------------------------------------------ bounds
MaxOps == 2        \* requests handled in one behaviour
MaxExtras == 2     \* entries of one extra_items mapping
NumRequests == 2   \* add_item requests in flight at once
MaxMails == 2      \* emails sent in one behaviour
MaxTicks == 2      \* clock steps in one behaviour
TickSeconds == 300 \* seconds in one clock step
NumDishes == 4     \* dishes on the menu
MaxBookings == 2   \* bookings submitted in one behaviour
MaxCategories == 3 \* categories created in one behaviour

\* ------------------------------------------------------- request payloads
Absent == "<absent>"           \* the key is missing from the JSON body

\* Python's int() on the JSON values the requests carry: numerals convert,
\* anything else raises ValueError.
IntTable ==
    ("-1" :> -1) @@ ("0" :> 0) @@ ("1" :> 1) @@ ("01" :> 1) @@ ("2" :> 2) @@ ("9" :> 9)

IsInt(tok) == tok \in DOMAIN IntTable
IntOf(tok) == IntTable[tok]

\* str.lower() on the order options the requests carry.
Lower(s) ==
    CASE s = "Pickup" -> "pickup"
      [] s = "Delivery" -> "delivery"
      [] OTHER -> s

\* ------------------------------------------------------------ the catalogue
\* Dish and ExtraItem rows (id -> price); read, never written, by the cart flow.
DishPrice == (1 :> 10000) @@ (2 :> 250)
ExtraPrice == (1 :> 150) @@ (2 :> 100)

DishExists(tok) == IsInt(tok) /\ IntOf(tok) \in DOMAIN DishPrice
ExtraExists(tok) == IsInt(tok) /\ IntOf(tok) \in DOMAIN ExtraPrice

\* ------------------------------------------------------------------- models
ORDER_TYPES == {"pickup", "delivery"}

\* Cart codes that are well-formed UUIDs; any other code fails UUIDField.
ValidCodes == {"c1", "c2"}

NoUser == "<none>"
NoNote == "<null>"
DefaultPrice == 0

NewCart(code) ==
    [cart_code |-> code, order_type |-> "delivery", paid |-> FALSE,
     is_active |-> TRUE, user |-> NoUser]

\* The row CartItem.objects.get_or_create(cart=, dish=) inserts: every column
\* it is not given keeps its default.
NewCartItem(cart, dish) ==
    [cart |-> cart, dish |-> dish, quantity |-> 1,
     special_instruction |-> NoNote,
     unit_price |-> DefaultPrice, total_price |-> DefaultPrice,
     extra_items |-> <<>>]

NewCartItemExtra(extra, qty) == [extra |-> extra, quantity |-> qty]

\* ----------------------------------------------------------------- queries
CartsWithCode(cs, code) == {i \in DOMAIN cs : cs[i].cart_code = code}
ItemsOf(its, cart, dish) ==
    {i \in DOMAIN its : its[i].cart = cart /\ its[i].dish = dish}
RowsOf(rows, extra) == {i \in DOMAIN rows : rows[i].extra = extra}

\* Cart.objects.get_or_create(cart_code=code): the row found, else a new row;
\* several matching rows raise MultipleObjectsReturned.
CartGetOrCreate(cs, code) ==
    LET found == CartsWithCode(cs, code) IN
    IF found = {}
    THEN [ok |-> TRUE, carts |-> Append(cs, NewCart(code)), id |-> Len(cs) + 1]
    ELSE IF Cardinality(found) = 1
    THEN [ok |-> TRUE, carts |-> cs, id |-> CHOOSE i \in found : TRUE]
    ELSE [ok |-> FALSE, carts |-> cs, id |-> 0]

\* Mutant: a plain create() where get_or_create() stands.
CartItemAlwaysCreate(its, cart, dish) ==
    [ok |-> TRUE, items |-> Append(its, NewCartItem(cart, dish)),
     id |-> Len(its) + 1]

\* CartItem.objects.get_or_create(cart=cart, dish=dish)
CartItemGetOrCreate(its, cart, dish) ==
    LET found == ItemsOf(its, cart, dish) IN
    IF found = {}
    THEN [ok |-> TRUE, items |-> Append(its, NewCartItem(cart, dish)),
          id |-> Len(its) + 1]
    ELSE IF Cardinality(found) = 1
    THEN [ok |-> TRUE, items |-> its, id |-> CHOOSE i \in found : TRUE]
    ELSE [ok |-> FALSE, items |-> its, id |-> 0]

\* CartItemExtra.objects.update_or_create(cart_item=, extra=,
\*                                        defaults={'quantity': qty})
\* on the rows of one cart item.
ExtraUpdateOrCreate(rows, extra, qty) ==
    LET found == RowsOf(rows, extra) IN
    IF found = {}
    THEN [ok |-> TRUE, rows |-> Append(rows, NewCartItemExtra(extra, qty))]
    ELSE IF Cardinality(found) = 1
    THEN [ok |-> TRUE,
          rows |-> [i \in DOMAIN rows |->
                      IF i \in found THEN [rows[i] EXCEPT !.quantity = qty]
                      ELSE rows[i]]]
    ELSE [ok |-> FALSE, rows |-> rows]

\* ------------------------------------------------------------ add_dish view
\* What a handler leaves behind: the store it wrote, the response status, and
\* whether an exception left the handler (raised) instead of a response.
Outcome(cs, its, status, raised) ==
    [carts |-> cs, items |-> its, status |-> status, raised |-> raised]

\* transaction.atomic: the writes are rolled back when an exception leaves the
\* block and committed when the block returns.
TransactionAtomic(cs, its, out) ==
    IF out.raised THEN [out EXCEPT !.carts = cs, !.items = its] ELSE out

\* Truthiness of the extra_items payload (None and {} are falsy).
Truthy(payload) ==
    payload.kind = "list" \/ (payload.kind = "dict" /\ payload.entries # <<>>)

\* The loop over extra_items.items(): stops at the first entry that raises,
\* keeping the rows written for the entries before it.
RECURSIVE UpsertExtras(_, _)
UpsertExtras(rows, entries) ==
    IF entries = <<>> THEN [rows |-> rows, status |-> 201]
    ELSE
      LET e == Head(entries) IN
      IF ~IsInt(e.id) THEN [rows |-> rows, status |-> 400]
      ELSE IF ~ExtraExists(e.id) THEN [rows |-> rows, status |-> 404]
      ELSE IF ~(e.quantity = Absent \/ IsInt(e.quantity))
      THEN [rows |-> rows, status |-> 400]
      ELSE
        LET qty == IF e.quantity = Absent THEN 1 ELSE IntOf(e.quantity)
            r == ExtraUpdateOrCreate(rows, IntOf(e.id), qty)
        IN IF r.ok THEN UpsertExtras(r.rows, Tail(entries))
           ELSE [rows |-> rows, status |-> 400]

\* Lines 82-96: the extras of the cart item k.
AddExtras(cs, its, k, payload) ==
    IF ~Truthy(payload) THEN Outcome(cs, its, 201, FALSE)
    ELSE IF payload.kind # "dict" THEN Outcome(cs, its, 400, FALSE)
    ELSE
      LET r == UpsertExtras(its[k].extra_items, payload.entries) IN
      Outcome(cs, [its EXCEPT ![k].extra_items = r.rows], r.status, FALSE)

\* Mutant: the option is saved without the membership test.
SetOrderTypeUnchecked(cs, c, option) == [cs EXCEPT ![c].order_type = option]

\* Lines 60-62: the order type is saved when the lower-cased option is one
\* of the choices.
SetOrderType(cs, c, option) ==
    IF option \in ORDER_TYPES THEN [cs EXCEPT ![c].order_type = option] ELSE cs

\* Lines 73-79: quantity and note of the cart item k.
SaveCartItem(its, k, quantity, note) ==
    [its EXCEPT ![k].quantity = quantity,
                ![k].special_instruction =
                    IF note # Absent /\ note # "" THEN note ELSE @]

\* Mutant: without the Dish.DoesNotExist handler a missing dish falls to the
\* generic handler.
AddToCartNoNotFound(cs, its, c, req, quantity) ==
    IF req.dish_id # Absent /\ ~IsInt(req.dish_id)
    THEN Outcome(cs, its, 400, FALSE)
    ELSE IF ~DishExists(req.dish_id) THEN Outcome(cs, its, 400, FALSE)
    ELSE
      LET got == CartItemGetOrCreate(its, c, IntOf(req.dish_id)) IN
      IF ~got.ok THEN Outcome(cs, its, 400, FALSE)
      ELSE AddExtras(cs, SaveCartItem(got.items, got.id, quantity, req.note),
                     got.id, req.extra_items)

\* Lines 65-96, after the cart c is resolved.
AddToCart(cs, its, c, req, quantity) ==
    IF req.dish_id # Absent /\ ~IsInt(req.dish_id)
    THEN Outcome(cs, its, 400, FALSE)
    ELSE IF ~DishExists(req.dish_id) THEN Outcome(cs, its, 404, FALSE)
    ELSE
      LET got == CartItemGetOrCreate(its, c, IntOf(req.dish_id)) IN
      IF ~got.ok THEN Outcome(cs, its, 400, FALSE)
      ELSE AddExtras(cs, SaveCartItem(got.items, got.id, quantity, req.note),
                     got.id, req.extra_items)

\* The whole view.  Every exception is caught inside the function, so the
\* transaction around it always sees a normal return.
add_dish(cs, its, req) ==
    IF ~(req.quantity = Absent \/ IsInt(req.quantity))
    THEN Outcome(cs, its, 400, FALSE)
    ELSE IF req.orderoption = Absent THEN Outcome(cs, its, 400, FALSE)
    ELSE IF req.cart_code \notin ValidCodes THEN Outcome(cs, its, 400, FALSE)
    ELSE
      LET quantity == IF req.quantity = Absent THEN 1 ELSE IntOf(req.quantity)
          got == CartGetOrCreate(cs, req.cart_code)
      IN IF ~got.ok THEN Outcome(cs, its, 400, FALSE)
         ELSE AddToCart(SetOrderType(got.carts, got.id, Lower(req.orderoption)),
                        its, got.id, req, quantity)

\* ------------------------------------------------- CartItemWriteSerializer
\* Mutant: every resolved extra is counted once, whatever its quantity.
RECURSIVE PriceExtrasOnce(_, _)
PriceExtrasOnce(total, entries) ==
    IF entries = <<>> THEN [ok |-> TRUE, total |-> total]
    ELSE
      LET e == Head(entries) IN
      IF ~IsInt(e.id) THEN [ok |-> FALSE, total |-> total]
      ELSE IF ~ExtraExists(e.id) THEN PriceExtrasOnce(total, Tail(entries))
      ELSE IF ~(e.quantity = Absent \/ IsInt(e.quantity))
      THEN [ok |-> FALSE, total |-> total]
      ELSE PriceExtrasOnce(total + ExtraPrice[IntOf(e.id)], Tail(entries))

\* The loop of validate() over extras.items(): an entry whose extra does not
\* exist is skipped; a key or a quantity that int() rejects raises ValueError.
RECURSIVE PriceExtras(_, _)
PriceExtras(total, entries) ==
    IF entries = <<>> THEN [ok |-> TRUE, total |-> total]
    ELSE
      LET e == Head(entries) IN
      IF ~IsInt(e.id) THEN [ok |-> FALSE, total |-> total]
      ELSE IF ~ExtraExists(e.id) THEN PriceExtras(total, Tail(entries))
      ELSE IF ~(e.quantity = Absent \/ IsInt(e.quantity))
      THEN [ok |-> FALSE, total |-> total]
      ELSE
        LET qty == IF e.quantity = Absent THEN 1 ELSE IntOf(e.quantity) IN
        PriceExtras(total + ExtraPrice[IntOf(e.id)] * qty, Tail(entries))

\* CartItemWriteSerializer.validate on the field-validated attrs.
validate(dish, quantity, payload) ==
    LET unit_price == DishPrice[dish]
        qty == IF quantity = Absent THEN 1 ELSE IntOf(quantity)
        priced == PriceExtras(unit_price * qty, payload.entries)
    IN [ok |-> priced.ok, unit_price |-> unit_price, total_price |-> priced.total]

\* Field validation of CartItemWriteSerializer (is_valid before validate()).
FieldsValid(req) ==
    /\ DishExists(req.dish_id)
    /\ req.quantity = Absent \/ IsInt(req.quantity)
    /\ req.cart_code # Absent
    /\ req.extra_items.kind # "list"

\* The loop of create() over extras.items(): one new row per resolved entry.
RECURSIVE CreateExtras(_, _)
CreateExtras(rows, entries) ==
    IF entries = <<>> THEN rows
    ELSE
      LET e == Head(entries) IN
      IF ~ExtraExists(e.id) THEN CreateExtras(rows, Tail(entries))
      ELSE
        LET qty == IF e.quantity = Absent THEN 1 ELSE IntOf(e.quantity) IN
        CreateExtras(Append(rows, NewCartItemExtra(IntOf(e.id), qty)),
                     Tail(entries))

\* CartItemWriteSerializer.create inside its transaction.atomic() block.
create(cs, its, req, validated) ==
    IF req.cart_code \notin ValidCodes THEN Outcome(cs, its, 500, TRUE)
    ELSE
      LET got == CartGetOrCreate(cs, req.cart_code) IN
      IF ~got.ok THEN Outcome(cs, its, 500, TRUE)
      ELSE
        LET cs1 == SetOrderType(got.carts, got.id, req.orderoption)
            row == [cart |-> got.id, dish |-> IntOf(req.dish_id),
                    quantity |-> IF req.quantity = Absent THEN 1
                                 ELSE IntOf(req.quantity),
                    special_instruction |->
                        IF req.note = Absent THEN "" ELSE req.note,
                    unit_price |-> validated.unit_price,
                    total_price |-> validated.total_price,
                    extra_items |-> CreateExtras(<<>>, req.extra_items.entries)]
        IN Outcome(cs1, Append(its, row), 201, FALSE)

\* serializer.is_valid() followed by serializer.save().
WriteSerializerSave(cs, its, req) ==
    IF ~FieldsValid(req) THEN Outcome(cs, its, 400, FALSE)
    ELSE
      LET validated == validate(IntOf(req.dish_id), req.quantity, req.extra_items)
      IN IF ~validated.ok THEN Outcome(cs, its, 500, TRUE)
         ELSE TransactionAtomic(cs, its, create(cs, its, req, validated))

\* ------------------------------------------- CartItemUpdateWriteSerializer
\* The loop of validate(): get_object_or_404 raises for an unknown extra, and
\* the raw quantity is multiplied with the price without int().
RECURSIVE UpdatePriceExtras(_, _)
UpdatePriceExtras(total, entries) ==
    IF entries = <<>> THEN [status |-> 200, total |-> total]
    ELSE
      LET e == Head(entries) IN
      IF ~IsInt(e.id) THEN [status |-> 500, total |-> total]
      ELSE IF ~ExtraExists(e.id) THEN [status |-> 404, total |-> total]
      ELSE IF ~(e.quantity = Absent \/ IsInt(e.quantity))
      THEN [status |-> 500, total |-> total]
      ELSE
        LET qty == IF e.quantity = Absent THEN 1 ELSE IntOf(e.quantity) IN
        UpdatePriceExtras(total + qty * ExtraPrice[IntOf(e.id)], Tail(entries))

update_validate(instance, quantity, payload) ==
    UpdatePriceExtras(DishPrice[instance.dish] * quantity, payload.entries)

\* CartItemUpdateWriteSerializer.update: the item's rows are deleted, one row
\* is created per resolved entry, and the total is computed over those rows.
RECURSIVE UpdateExtras(_, _, _)
UpdateExtras(rows, total, entries) ==
    IF entries = <<>> THEN [rows |-> rows, total |-> total]
    ELSE
      LET e == Head(entries) IN
      IF ~ExtraExists(e.id) THEN UpdateExtras(rows, total, Tail(entries))
      ELSE
        LET qty == IF e.quantity = Absent THEN 1 ELSE IntOf(e.quantity) IN
        UpdateExtras(Append(rows, NewCartItemExtra(IntOf(e.id), qty)),
                     total + ExtraPrice[IntOf(e.id)] * qty, Tail(entries))

update(its, k, quantity, note, payload) ==
    LET unit_price == DishPrice[its[k].dish]
        r == UpdateExtras(<<>>, unit_price * quantity, payload.entries)
    IN [its EXCEPT ![k] = [@ EXCEPT !.quantity = quantity,
                                    !.special_instruction = note,
                                    !.unit_price = unit_price,
                                    !.total_price = r.total,
                                    !.extra_items = r.rows]]

\* serializer.is_valid() followed by serializer.save() on the instance k.
UpdateSerializerSave(cs, its, k, req) ==
    IF ~(req.quantity = Absent \/ IsInt(req.quantity)) \/ req.extra_items.kind = "list"
    THEN Outcome(cs, its, 400, FALSE)
    ELSE
      LET quantity == IF req.quantity = Absent THEN its[k].quantity
                      ELSE IntOf(req.quantity)
          note == IF req.note = Absent THEN its[k].special_instruction
                  ELSE req.note
          v == update_validate(its[k], quantity, req.extra_items)
      IN IF v.status # 200 THEN Outcome(cs, its, v.status, TRUE)
         ELSE Outcome(cs, update(its, k, quantity, note, req.extra_items),
                      200, FALSE)

\* ---------------------------------------------------------------- requests
CartCodes == ValidCodes \cup {"zz"}
DishIds == {"1", "9"}
Quantities == {Absent, "0", "2", "x"}
Notes == {Absent, "", "n"}
OrderOptions == {Absent, "pickup", "Delivery", "dine-in"}
ExtraKeys == {"1", "01", "9"}
ExtraQuantities == {Absent, "0", "x"}

Entry == [id : ExtraKeys, quantity : ExtraQuantities]
EntrySeqs ==
    UNION {{es \in [1..n -> Entry] :
              \A i, j \in 1..n : i # j => es[i].id # es[j].id} : n \in 0..MaxExtras}

NoExtras == [kind |-> "absent", entries |-> <<>>]
NotAMapping == [kind |-> "list", entries |-> <<>>]
EmptyList == [kind |-> "emptylist", entries |-> <<>>]
ExtraPayloads ==
    {NoExtras, NotAMapping} \cup {[kind |-> "dict", entries |-> es] : es \in EntrySeqs}

\* The add_item bodies: every combination of cart code, dish, quantity and
\* order option without extras; every extras payload, and every note, on the
\* plain request for dish 1 in cart c1.
AddRequests ==
    [cart_code : CartCodes, dish_id : DishIds, quantity : Quantities,
     note : {Absent}, orderoption : OrderOptions, extra_items : {NoExtras}]
    \cup
    [cart_code : {"c1"}, dish_id : {"1"}, quantity : {Absent},
     note : {Absent}, orderoption : {"pickup"}, extra_items : ExtraPayloads]
    \cup
    [cart_code : {"c1"}, dish_id : {"1"}, quantity : {Absent, "2"},
     note : Notes, orderoption : {"pickup"},
     extra_items : {NoExtras, NotAMapping, EmptyList}]

\* The bodies given to CartItemWriteSerializer: the extras payloads on a
\* request for dish 1, and the other fields without extras.
CreateRequests ==
    [cart_code : {"c1"}, dish_id : {"1"}, quantity : {Absent, "2"},
     note : {Absent}, orderoption : {Absent}, extra_items : ExtraPayloads]
    \cup
    [cart_code : CartCodes, dish_id : DishIds, quantity : {Absent, "x"},
     note : {Absent, "n"}, orderoption : {Absent, "pickup", "Delivery"},
     extra_items : {NoExtras}]

\* The bodies given to CartItemUpdateWriteSerializer.
UpdateRequests ==
    [quantity : {Absent, "0", "2", "x"}, note : {Absent, "n"},
     extra_items : ExtraPayloads]

\* The attrs given to CartItemWriteSerializer.validate after field validation.
PriceKeys == ExtraKeys \cup {"2"}
PriceEntry == [id : PriceKeys, quantity : ExtraQuantities \cup {"2"}]
PriceEntrySeqs ==
    UNION {{es \in [1..n -> PriceEntry] :
              \A i, j \in 1..n : i # j => es[i].id # es[j].id} : n \in 0..MaxExtras}
PriceInputs ==
    [dish : DOMAIN DishPrice, quantity : {Absent, "-1", "0", "1", "2"},
     extra_items : {[kind |-> "dict", entries |-> es] : es \in PriceEntrySeqs}]

\* ------------------------------------------------------- featured dishes
\* The dishes on the menu; menu.available holds those with is_available.
Dishes == 1..NumDishes
SampleSize == 3
CacheTimeout == 300
NoSample == {}                  \* cache.get's None

NoFeatured ==
    [status |-> 0, dishes |-> {}, source |-> "none", available |-> Dishes]
MenuInit ==
    [available |-> Dishes, cache |-> NoSample, cached_at |-> 0, resp |-> NoFeatured]

\* cache.get('available_dish_data'): the entry, until its timeout has passed.
cache_get(m) ==
    IF m.cache # NoSample /\ now < m.cached_at + CacheTimeout THEN m.cache
    ELSE NoSample

\* random.sample(data, 3): any 3 of the serialized dishes.
Samples(data) == {s \in SUBSET data : Cardinality(s) = SampleSize}

\* The first three rows of Dish.objects.filter(is_available=True)[:3].
FirstThree(data) == {d \in data : Cardinality({x \in data : x < d}) < SampleSize}

\* cache_available_dish_data: the menus it can leave with the value it returns.
cache_available_dish_data(m) ==
    IF cache_get(m) # NoSample
    THEN {[menu |-> m, featured |-> cache_get(m), source |-> "hit"]}
    ELSE IF Cardinality(m.available) > SampleSize
    THEN {[menu |-> [m EXCEPT !.cache = s, !.cached_at = now], featured |-> s,
           source |-> "miss"] : s \in Samples(m.available)}
    ELSE {[menu |-> m, featured |-> NoSample, source |-> "miss"]}

\* random_featured_dish: with the cache backend up, the cached or sampled
\* dishes or the 400; with the backend failing, the except branch.
random_featured_dish(m, cacheUp) ==
    IF ~cacheUp
    THEN {[m EXCEPT !.resp = [status |-> 200, dishes |-> FirstThree(m.available),
                              source |-> "fallback", available |-> m.available]]}
    ELSE {[r.menu EXCEPT !.resp =
              IF r.featured = NoSample
              THEN [status |-> 400, dishes |-> {}, source |-> r.source,
                    available |-> m.available]
              ELSE [status |-> 200, dishes |-> r.featured, source |-> r.source,
                    available |-> m.available]]
           : r \in cache_available_dish_data(m)}

\* GET featured-dishes/
FeaturedDish ==
    /\ \E cacheUp \in BOOLEAN : menu' \in random_featured_dish(menu, cacheUp)
    /\ UNCHANGED <<shop, auth, desk>>

\* DishAdmin: a dish is taken off the menu or put back on it.
SetAvailable ==
    /\ \E d \in Dishes :
         menu' = [menu EXCEPT !.available =
                     IF d \in @ THEN @ \ {d} ELSE @ \cup {d}]
    /\ UNCHANGED <<shop, auth, desk>>

\* ------------------------------------------------------------- userauth
Emails == {"a@x.io", "b@x.io"}
NoAccount == [exists |-> FALSE, password |-> Absent, is_verified |-> FALSE,
              is_active |-> FALSE, is_staff |-> FALSE, is_superuser |-> FALSE]

\* set_password / check_password: the stored value is a hash of the raw one.
make_password(raw) == <<"pbkdf2", raw>>
check_password(raw, hashed) == hashed = make_password(raw)

\* The passwords the requests carry, with their lengths; "12345678" is long
\* enough for the field and rejected by validate_password.
PasswordLength == ("pw-one-1" :> 8) @@ ("pw-two-2" :> 8) @@ ("short" :> 5)
                  @@ ("12345678" :> 8)
Passwords == DOMAIN PasswordLength
MinLength == 8
PasswordValidatorsPass(raw) == raw # "12345678"

\* TimestampSigner: a token is the email, the second it was signed at, and a
\* signature.  Email verification and password reset share the one signer.
MAX_AGE == 300
sign(data) == [email |-> data, ts |-> now, sig |-> "signed"]
NoToken == [email |-> Absent, ts |-> 0, sig |-> "none"]
Forged(e) == [email |-> e, ts |-> now, sig |-> "forged"]
NumberToken == [email |-> Absent, ts |-> 0, sig |-> "number"]
None == "<None>"

\* Mutant: unsign without max_age.
verify_token_no_age(token, max_age) ==
    IF token.sig # "signed" THEN None ELSE token.email

\* verify_token: signer.unsign(token, max_age) or None on SignatureExpired
\* and BadSignature.
verify_token(token, max_age) ==
    IF token.sig # "signed" THEN None
    ELSE IF now - token.ts > max_age THEN None
    ELSE token.email

verify_email_token(token) == verify_token(token, MAX_AGE)
verify_password_reset_token(token) == verify_token(token, MAX_AGE)

Mail(kind, to, token) == [kind |-> kind, to |-> to, token |-> token]
send_verification_email(to, token) == {Mail("verify", to, token)}
send_password_reset_email(to, token) == {Mail("reset", to, token)}

\* What a userauth view leaves behind: the accounts, the mail it sent, its
\* status, the keys of its validation errors, whether it returned JWT tokens.
AuthOutcome(accs, mail, status, errors, jwt) ==
    [accounts |-> accs, mail |-> mail, status |-> status, errors |-> errors,
     jwt |-> jwt]

\* RegisterSerializer's fields: email is required and unique, password and
\* confirm_password have min_length 8.
FieldErrors(accs, req) ==
    (IF req.email = Absent THEN {"email"}
     ELSE IF accs[req.email].exists THEN {"email"} ELSE {})
    \cup (IF PasswordLength[req.password] < MinLength THEN {"password"} ELSE {})
    \cup (IF PasswordLength[req.confirm_password] < MinLength
          THEN {"confirm_password"} ELSE {})

\* RegisterSerializer.validate: the errors it raises, none when attrs pass.
RegisterValidate(req) ==
    IF req.password # req.confirm_password THEN {"confirm_password"}
    ELSE IF ~PasswordValidatorsPass(req.password) THEN {"password"}
    ELSE {}

\* BooleanField.to_internal_value on the JSON values the requests carry.
BooleanField(value) == value = "true"

\* Account.objects.create_user(**validated_data): is_verified is among the
\* serializer's fields and reaches the row through extra_fields; without it
\* the column keeps its default.
DefaultVerified == FALSE
create_user(email, password, extra_fields) ==
    [exists |-> TRUE, password |-> make_password(password),
     is_verified |-> IF extra_fields.is_verified = Absent THEN DefaultVerified
                     ELSE BooleanField(extra_fields.is_verified),
     is_active |-> TRUE, is_staff |-> FALSE, is_superuser |-> FALSE]

\* Mutant: the view saves the serializer without validating it.
register_view_unvalidated(accs, req) ==
    IF req.email = Absent THEN AuthOutcome(accs, {}, 400, {"email"}, FALSE)
    ELSE AuthOutcome([accs EXCEPT ![req.email] = create_user(req.email, req.password, req)],
                     send_verification_email(req.email, sign(req.email)),
                     201, {}, TRUE)

\* register_view: is_valid(raise_exception=True) runs the fields' validation
\* and, when no field failed, validate(); then save(), token and email.
register_view(accs, req) ==
    IF FieldErrors(accs, req) # {}
    THEN AuthOutcome(accs, {}, 400, FieldErrors(accs, req), FALSE)
    ELSE IF RegisterValidate(req) # {}
    THEN AuthOutcome(accs, {}, 400, RegisterValidate(req), FALSE)
    ELSE AuthOutcome([accs EXCEPT ![req.email] = create_user(req.email, req.password, req)],
                     send_verification_email(req.email, sign(req.email)),
                     201, {}, TRUE)

\* verify_email_view
verify_email_view(accs, token) ==
    IF token = NoToken THEN AuthOutcome(accs, {}, 400, {"Missing token"}, FALSE)
    ELSE
      LET email == verify_email_token(token) IN
      IF email = None
      THEN AuthOutcome(accs, {}, 400, {"Invalid or expired token"}, FALSE)
      ELSE IF ~accs[email].exists
      THEN AuthOutcome(accs, {}, 400, {"User not found"}, FALSE)
      ELSE IF accs[email].is_verified THEN AuthOutcome(accs, {}, 200, {}, FALSE)
      ELSE AuthOutcome([accs EXCEPT ![email].is_verified = TRUE], {}, 200, {}, FALSE)

\* TokenObtainPairSerializer.validate: authenticate() and the active check.
authenticate(accs, email, password) ==
    /\ email # Absent
    /\ accs[email].exists
    /\ check_password(password, accs[email].password)
    /\ accs[email].is_active

\* Mutant: LoginSerializer.validate without the is_verified test.
login_view_unverified(accs, email, password) ==
    IF ~authenticate(accs, email, password)
    THEN AuthOutcome(accs, {}, 401, {"no_active_account"}, FALSE)
    ELSE AuthOutcome(accs, {}, 200, {}, TRUE)

\* login_view with LoginSerializer.validate
login_view(accs, email, password) ==
    IF ~authenticate(accs, email, password)
    THEN AuthOutcome(accs, {}, 401, {"no_active_account"}, FALSE)
    ELSE IF ~accs[email].is_verified
    THEN AuthOutcome(accs, {}, 400, {"Email is not verified."}, FALSE)
    ELSE AuthOutcome(accs, {}, 200, {}, TRUE)

\* Mutant: the reset email goes out whether or not the account is verified.
request_password_reset_view_any(accs, email) ==
    IF email = Absent THEN AuthOutcome(accs, {}, 400, {"Email is required"}, FALSE)
    ELSE IF ~accs[email].exists THEN AuthOutcome(accs, {}, 200, {}, FALSE)
    ELSE AuthOutcome(accs, send_password_reset_email(email, sign(email)),
                     200, {}, FALSE)

\* request_password_reset_view
request_password_reset_view(accs, email) ==
    IF email = Absent THEN AuthOutcome(accs, {}, 400, {"Email is required"}, FALSE)
    ELSE IF ~accs[email].exists THEN AuthOutcome(accs, {}, 200, {}, FALSE)
    ELSE IF ~accs[email].is_verified
    THEN AuthOutcome(accs, {}, 400, {"Account is not verified"}, FALSE)
    ELSE AuthOutcome(accs, send_password_reset_email(email, sign(email)),
                     200, {}, FALSE)

\* verify_password_reset_token_view.  A token that is a JSON number makes
\* signer.unsign raise TypeError, which verify_token does not catch.
verify_password_reset_token_view(accs, token, password, confirm_password) ==
    IF token = NoToken \/ password = Absent \/ confirm_password = Absent
    THEN AuthOutcome(accs, {}, 400, {"Missing fields"}, FALSE)
    ELSE IF password # confirm_password
    THEN AuthOutcome(accs, {}, 400, {"Passwords do not match"}, FALSE)
    ELSE IF token = NumberToken
    THEN AuthOutcome(accs, {}, 500, {"TypeError"}, FALSE)
    ELSE
      LET email == verify_password_reset_token(token) IN
      IF email = None
      THEN AuthOutcome(accs, {}, 400, {"Invalid or expired token"}, FALSE)
      ELSE IF ~accs[email].exists
      THEN AuthOutcome(accs, {}, 400, {"Account does not exist"}, FALSE)
      ELSE AuthOutcome([accs EXCEPT ![email].password = make_password(password)],
                       {}, 200, {}, FALSE)

\* The bodies of the userauth requests.
AuthReq(email, token, password, confirm_password) ==
    [email |-> email, token |-> token, password |-> password,
     confirm_password |-> confirm_password]

PasswordPairs ==
    {<<"pw-one-1", "pw-one-1">>, <<"pw-one-1", "pw-two-2">>, <<"short", "short">>,
     <<"short", "pw-one-1">>, <<"12345678", "12345678">>}
\* The bodies of POST register/: every email and password pair without
\* is_verified, and the well-formed body with is_verified: true.
RegisterReq(email, password, confirm_password, is_verified) ==
    [email |-> email, token |-> NoToken, password |-> password,
     confirm_password |-> confirm_password, is_verified |-> is_verified]
RegisterRequests ==
    {RegisterReq(e, pp[1], pp[2], Absent) :
        e \in Emails \cup {Absent}, pp \in PasswordPairs}
    \cup {RegisterReq(e, "pw-one-1", "pw-one-1", "true") : e \in Emails}

\* The tokens a client can present: none, the ones that were emailed, and
\* ones signed without the server's key.
QueryTokens == {NoToken, Forged("a@x.io")} \cup outbox
BodyTokens == QueryTokens \cup {NumberToken}

LoginPasswords == {"pw-one-1", "pw-two-2"}
ResetPasswords ==
    {<<"pw-two-2", "pw-two-2">>, <<"pw-two-2", "pw-one-1">>, <<Absent, "pw-two-2">>}

\* ---------------------------------------------------------------- bookings
\* The Booking columns that decide who owns a booking and where it stands,
\* with event_type standing for the customer's own columns.
BookingFields == {"user", "event_type", "is_pending", "is_confirmed", "is_declined"}
EVENT_TYPES == {"wedding", "other"}
Members == {"u1"}              \* the accounts a request can authenticate as

\* Booking's column defaults.
BookingDefaults ==
    [user |-> NoUser, event_type |-> Absent, is_pending |-> TRUE,
     is_confirmed |-> FALSE, is_declined |-> FALSE]

\* BookingSerializer.Meta.read_only_fields, for the columns above.
read_only_fields == {"user", "is_pending", "is_confirmed", "is_declined"}

\* BookingSerializer.is_valid: event_type is required and is one of the
\* choices; a read-only field is never an error.
BookingIsValid(data) == data["event_type"] \in EVENT_TYPES

\* BookingSerializer.validated_data: a ModelSerializer drops what the input
\* carries for a read-only field.
validated_data(data) ==
    [f \in BookingFields \ read_only_fields |-> data[f]]

\* BookingSerializer.save() with no extra keywords: Booking.objects.create
\* over the validated data, every other column at its default.
BookingCreate(validated) ==
    [f \in BookingFields |->
        IF f \in DOMAIN validated THEN validated[f] ELSE BookingDefaults[f]]

\* create_booking for a requester (NoUser when anonymous) and a body.
create_booking(bks, requester, body) ==
    LET data == IF requester # NoUser
                THEN [body EXCEPT !["user"] = requester]
                ELSE body
    IN  IF BookingIsValid(data)
        THEN [bookings |-> Append(bks, BookingCreate(validated_data(data))),
              status |-> 201]
        ELSE [bookings |-> bks, status |-> 400]

BookingBodies ==
    [user : Members \cup {Absent},
     event_type : EVENT_TYPES \cup {"picnic", Absent},
     is_pending : {Absent, "false"},
     is_confirmed : {Absent, "true"},
     is_declined : {Absent, "true"}]

NoBooked ==
    [requester |-> NoUser, status |-> 0,
     body |-> [user |-> Absent, event_type |-> Absent, is_pending |-> Absent,
               is_confirmed |-> Absent, is_declined |-> Absent]]

\* POST create/ of the bookings application.
CreateBooking ==
    /\ Len(bookings) < MaxBookings
    /\ \E requester \in Members \cup {NoUser}, body \in BookingBodies :
         LET out == create_booking(bookings, requester, body) IN
         /\ bookings' = out.bookings
         /\ booked' = [requester |-> requester, status |-> out.status, body |-> body]
    /\ UNCHANGED <<shop, auth, menu, shelf, patched>>

\* -------------------------------------------------------------- categories
\* django.utils.text.slugify on the names the saves carry: lower-cased, what
\* is neither alphanumeric, space nor hyphen dropped, spaces to hyphens.
SlugTable ==
    ("Soup" :> "soup") @@ ("soup" :> "soup") @@ ("Soup 1" :> "soup-1") @@ ("!!!" :> "")
Names == DOMAIN SlugTable
slugify(name) == SlugTable[name]

NewInstance == 0               \* self.id of an instance that is not stored yet

\* Mutant: the filter without exclude(id=self.id).
HoldersAnyId(cats, slug_value, id) ==
    {i \in 1..Len(cats) : cats[i].slug = slug_value}

\* Category.objects.filter(slug=slug_value).exclude(id=self.id)
Holders(cats, slug_value, id) ==
    {i \in 1..Len(cats) : i # id /\ cats[i].slug = slug_value}

\* The while loop of Category.save: the slug it ends on and the counter then.
RECURSIVE SlugSearch(_, _, _, _, _)
SlugSearch(cats, id, base_slug, slug_value, counter) ==
    IF Holders(cats, slug_value, id) # {}
    THEN SlugSearch(cats, id, base_slug,
                    base_slug \o "-" \o ToString(counter), counter + 1)
    ELSE [slug |-> slug_value, counter |-> counter]

\* Category.save for the instance id with the name and slug it holds.
save(cats, id, name, slug) ==
    LET slug_value ==
            IF slug = "" THEN slugify(name)
            ELSE IF id # NewInstance /\ cats[id].name # name THEN slugify(name)
            ELSE slug
        found == SlugSearch(cats, id, slug_value, slug_value, 1)
        row == [name |-> name, slug |-> found.slug]
    IN  [categories |-> IF id = NewInstance THEN Append(cats, row)
                        ELSE [cats EXCEPT ![id] = row],
         base |-> slug_value, counter |-> found.counter]

NoSaved ==
    [op |-> "none", id |-> NewInstance, name |-> "", slug |-> "", base |-> "",
     counter |-> 1, renamed |-> FALSE]

\* The record of a save: the row it wrote, the name and slug the instance
\* held going in, whether that name differs from the stored one, and the base
\* slug and the counter the search ended with.
Saved(op, id, name, slug, out) ==
    [op |-> op, id |-> IF id = NewInstance THEN Len(out.categories) ELSE id,
     name |-> name, slug |-> slug, base |-> out.base, counter |-> out.counter,
     renamed |-> id # NewInstance /\ categories[id].name # name]

\* A category is created from a name, the slug left blank or filled in.
CategoryCreate ==
    /\ Len(categories) < MaxCategories
    /\ \E name \in Names, slug \in {"", "soup-1"} :
         LET out == save(categories, NewInstance, name, slug) IN
         /\ categories' = out.categories
         /\ saved' = Saved("create", NewInstance, name, slug, out)
    /\ UNCHANGED <<shop, auth, menu, book, patched>>

\* A stored category is given another name and saved.
CategoryRename ==
    /\ \E id \in 1..Len(categories), name \in Names :
         LET out == save(categories, id, name, categories[id].slug) IN
         /\ name # categories[id].name
         /\ categories' = out.categories
         /\ saved' = Saved("rename", id, name, categories[id].slug, out)
    /\ UNCHANGED <<shop, auth, menu, book, patched>>

\* A stored category is saved again as it is.
CategoryResave ==
    /\ \E id \in 1..Len(categories) :
         LET out == save(categories, id, categories[id].name, categories[id].slug) IN
         /\ categories' = out.categories
         /\ saved' = Saved("resave", id, categories[id].name, categories[id].slug, out)
    /\ UNCHANGED <<shop, auth, menu, book, patched>>

NextCategory == CategoryCreate \/ CategoryRename \/ CategoryResave

NoPatched ==
    [op |-> "none", user |-> Absent, status |-> 0,
     body |-> [is_active |-> Absent, is_superuser |-> Absent, is_staff |-> Absent],
     row |-> NoAccount, saved |-> NoAccount, changed |-> {}]

NoResp ==
    [op |-> "none", req |-> AuthReq(Absent, NoToken, Absent, Absent), status |-> 0,
     errors |-> {}, jwt |-> FALSE, mail |-> {}, at |-> 0, row |-> NoAccount,
     changed |-> {}]

SiteInit ==
    /\ accounts = [e \in Emails |-> NoAccount]
    /\ outbox = {}
    /\ now = 0
    /\ resp = NoResp
    /\ menu = MenuInit
    /\ bookings = <<>>
    /\ booked = NoBooked
    /\ categories = <<>>
    /\ saved = NoSaved
    /\ patched = NoPatched

\* The account a request is about: the one its email or its token names.
Subject(req) == IF req.email # Absent THEN req.email ELSE req.token.email

\* The record of a userauth view that ran on req at the current second, with
\* the row of its subject as the view found it and the accounts whose row it
\* changed.
Response(op, req, out) ==
    [op |-> op, req |-> req, status |-> out.status, errors |-> out.errors,
     jwt |-> out.jwt, mail |-> out.mail, at |-> now,
     row |-> IF Subject(req) \in Emails THEN accounts[Subject(req)] ELSE NoAccount,
     changed |-> {e \in Emails : out.accounts[e] # accounts[e]}]

Sent(out) == {m.token : m \in out.mail}
MailFits(out) == Cardinality(outbox \cup Sent(out)) <= MaxMails

\* POST /auth/register/
Register ==
    /\ \E req \in RegisterRequests :
         LET out == register_view(accounts, req) IN
         /\ MailFits(out)
         /\ accounts' = out.accounts
         /\ outbox' = outbox \cup Sent(out)
         /\ resp' = Response("register", req, out)
    /\ UNCHANGED <<now, shop, menu, desk>>

\* GET /auth/verify/?token=
VerifyEmail ==
    /\ \E token \in QueryTokens :
         LET out == verify_email_view(accounts, token) IN
         /\ accounts' = out.accounts
         /\ resp' = Response("verify", AuthReq(Absent, token, Absent, Absent), out)
    /\ UNCHANGED <<outbox, now, shop, menu, desk>>

\* POST /auth/login/
Login ==
    /\ \E e \in Emails, pw \in LoginPasswords :
         LET out == login_view(accounts, e, pw) IN
         /\ accounts' = out.accounts
         /\ resp' = Response("login", AuthReq(e, NoToken, pw, Absent), out)
    /\ UNCHANGED <<outbox, now, shop, menu, desk>>

\* POST /auth/reset-password/
RequestPasswordReset ==
    /\ \E e \in Emails \cup {Absent} :
         LET out == request_password_reset_view(accounts, e) IN
         /\ MailFits(out)
         /\ accounts' = out.accounts
         /\ outbox' = outbox \cup Sent(out)
         /\ resp' = Response("request_reset", AuthReq(e, NoToken, Absent, Absent), out)
    /\ UNCHANGED <<now, shop, menu, desk>>

\* POST /auth/confirm-password-reset/
ConfirmPasswordReset ==
    /\ \E token \in BodyTokens, pp \in ResetPasswords :
         LET out == verify_password_reset_token_view(accounts, token, pp[1], pp[2]) IN
         /\ accounts' = out.accounts
         /\ resp' = Response("confirm_reset", AuthReq(Absent, token, pp[1], pp[2]), out)
    /\ UNCHANGED <<outbox, now, shop, menu, desk>>

\* AccountAdmin: an account is deleted.
AdminDelete ==
    /\ \E e \in Emails :
         /\ accounts[e].exists
         /\ accounts' = [accounts EXCEPT ![e] = NoAccount]
    /\ UNCHANGED <<outbox, now, resp, shop, menu, desk>>

\* AccountAdmin: an account is deactivated.
AdminDeactivate ==
    /\ \E e \in Emails :
         /\ accounts[e].exists /\ accounts[e].is_active
         /\ accounts' = [accounts EXCEPT ![e].is_active = FALSE]
    /\ UNCHANGED <<outbox, now, resp, shop, menu, desk>>

\* Time passes.
Tick ==
    /\ now < MaxTicks * TickSeconds
    /\ now' = now + TickSeconds
    /\ UNCHANGED <<accounts, outbox, resp, shop, menu, desk>>

\* ----------------------------------------------------------------- profile
\* The boolean columns of Account that AccountSerializer lists in its fields.
ProfileFlags == {"is_active", "is_superuser", "is_staff"}

\* The fields of AccountSerializer that are read-only: the declared id and
\* date_joined.  Meta names the option read_only_field, which the framework
\* does not read, so the flags stay writable.
AccountReadOnly == {"id", "date_joined"}

\* The JSON values a BooleanField accepts.
BooleanValues == {"true", "false"}

\* The body of a PATCH, for the flags: a key is absent or carries a value.
ProfileBodies ==
    [is_active : {Absent, "false", "x"}, is_superuser : {Absent, "true"},
     is_staff : {Absent, "true"}]

\* AccountSerializer(user, data, partial=True).is_valid(): every writable
\* field the body carries passes its own validation.
ProfileErrors(body) ==
    {f \in ProfileFlags \ AccountReadOnly :
        body[f] # Absent /\ body[f] \notin BooleanValues}

\* serializer.save(): every writable field the body carries is set on the
\* requester's row, and the row is saved.
ProfileUpdate(row, body) ==
    [c \in DOMAIN row |->
        IF c \in ProfileFlags \ AccountReadOnly /\ body[c] # Absent
        THEN BooleanField(body[c]) ELSE row[c]]

\* profile, method PATCH, for the authenticated user.
profile(accs, user, body) ==
    IF ProfileErrors(body) # {}
    THEN [accounts |-> accs, status |-> 400]
    ELSE [accounts |-> [accs EXCEPT ![user] = ProfileUpdate(accs[user], body)],
          status |-> 200]

\* PATCH of the profile endpoint.  IsAuthenticated admits the bearer of a
\* token of an account that exists and is active; register_view and
\* login_view hand out such tokens.
ProfilePatch ==
    /\ \E user \in Emails, body \in ProfileBodies :
         LET out == profile(accounts, user, body) IN
         /\ accounts[user].exists /\ accounts[user].is_active
         /\ accounts' = out.accounts
         /\ patched' = [op |-> "patch", user |-> user, status |-> out.status,
                        body |-> body, row |-> accounts[user],
                        saved |-> out.accounts[user],
                        changed |-> {e \in Emails : out.accounts[e] # accounts[e]}]
    /\ UNCHANGED <<outbox, now, resp, shop, menu, book, shelf>>

NextProfile == Register \/ ProfilePatch

\* Registration, verification and login beside the admin site.
NextAuth ==
    \/ Register \/ VerifyEmail \/ Login \/ AdminDelete \/ AdminDeactivate \/ Tick

\* Password reset for the accounts that registration and verification made.
NextReset ==
    \/ Register \/ VerifyEmail \/ RequestPasswordReset \/ ConfirmPasswordReset
    \/ AdminDelete \/ Tick

NextMenu == FeaturedDish \/ SetAvailable \/ Tick

\* ----------------------------------------------------------------- actions
Store(cs, its) == [carts |-> cs, items |-> its]
NoRequest == [op |-> "none", status |-> 0, before |-> Store(<<>>, <<>>)]

\* The requests in flight.  Each runs add_dish in its own transaction: the rows
\* it inserted (newCarts, newItems) and the rows it rewrote (cartWrites,
\* itemWrites) become visible to the others when it commits.
Procs == 1..NumRequests
PlainBody ==
    [cart_code |-> "c1", dish_id |-> "1", quantity |-> Absent, note |-> Absent,
     orderoption |-> "pickup", extra_items |-> NoExtras]
IdleTxn ==
    [pc |-> "idle", req |-> PlainBody, cart |-> 0, cartobj |-> NewCart("c1"),
     item |-> 0, itemobj |-> NewCartItem(0, 0), status |-> 0, conflict |-> FALSE,
     newCarts |-> {}, newItems |-> {}, cartWrites |-> {}, itemWrites |-> {}]

NoAttrs == [validated |-> FALSE, given |-> [dish |-> 1, quantity |-> Absent,
                                            extra_items |-> NoExtras]]

Init ==
    /\ carts = <<>>
    /\ items = <<>>
    /\ last = NoRequest
    /\ nops = 0
    /\ attrs = NoAttrs
    /\ txn = [p \in Procs |-> IdleTxn]
    /\ SiteInit

\* POST /cart/add_item/
AddItem ==
    /\ nops < MaxOps
    /\ \E req \in AddRequests :
         LET out == TransactionAtomic(carts, items, add_dish(carts, items, req)) IN
         /\ carts' = out.carts
         /\ items' = out.items
         /\ last' = [op |-> "add_item", req |-> req, status |-> out.status,
                     before |-> Store(carts, items)]
    /\ nops' = nops + 1
    /\ UNCHANGED <<attrs, txn, auth, menu, desk>>

\* A cart item created through CartItemWriteSerializer.
CreateItem ==
    /\ nops < MaxOps
    /\ \E req \in CreateRequests :
         LET out == WriteSerializerSave(carts, items, req) IN
         /\ carts' = out.carts
         /\ items' = out.items
         /\ last' = [op |-> "create", req |-> req, status |-> out.status,
                     before |-> Store(carts, items)]
    /\ nops' = nops + 1
    /\ UNCHANGED <<attrs, txn, auth, menu, desk>>

\* A stored cart item updated through CartItemUpdateWriteSerializer.
UpdateItem ==
    /\ nops < MaxOps
    /\ \E k \in DOMAIN items, req \in UpdateRequests :
         LET out == UpdateSerializerSave(carts, items, k, req) IN
         /\ carts' = out.carts
         /\ items' = out.items
         /\ last' = [op |-> "update", req |-> req, item |-> k,
                     status |-> out.status, before |-> Store(carts, items)]
    /\ nops' = nops + 1
    /\ UNCHANGED <<attrs, txn, auth, menu, desk>>

\* ------------------------------------------------------- get_cart_stat
\* SimpleCartSerializer: id, cart_code and the sum of the item quantities.
RECURSIVE SumQuantities(_, _)
SumQuantities(its, c) ==
    IF its = <<>> THEN 0
    ELSE (IF Head(its).cart = c THEN Head(its).quantity ELSE 0)
         + SumQuantities(Tail(its), c)

NoSummary == [id |-> 0, cart_code |-> Absent, number_of_items |-> 0]
SimpleCartSerializer(cs, its, c) ==
    [id |-> c, cart_code |-> cs[c].cart_code, number_of_items |-> SumQuantities(its, c)]

\* Cart.objects.get(cart_code=code): a code that is not a UUID fails the
\* field's validation before any row is looked up.
CartObjectsGet(cs, code) ==
    IF code \notin ValidCodes THEN [status |-> 400, id |-> 0]
    ELSE IF CartsWithCode(cs, code) = {} THEN [status |-> 404, id |-> 0]
    ELSE [status |-> 200, id |-> CHOOSE c \in CartsWithCode(cs, code) : TRUE]

\* The view: 400 without a code, DoesNotExist -> 404, any other exception -> 400.
get_cart_stat(cs, its, code) ==
    IF code = Absent \/ code = "" THEN [status |-> 400, body |-> NoSummary]
    ELSE LET got == CartObjectsGet(cs, code) IN
         IF got.status # 200 THEN [status |-> got.status, body |-> NoSummary]
         ELSE [status |-> 200, body |-> SimpleCartSerializer(cs, its, got.id)]

StatCodes == CartCodes \cup {Absent, ""}

\* GET /cart/get_cart_stat/?cart_code=
GetCartStat ==
    /\ \E code \in StatCodes :
         LET out == get_cart_stat(carts, items, code) IN
         last' = [op |-> "get_cart_stat", req |-> [cart_code |-> code],
                  status |-> out.status, body |-> out.body,
                  before |-> Store(carts, items)]
    /\ UNCHANGED <<carts, items, nops, attrs, txn, auth, menu, desk>>

\* ------------------------------------------------------ read serializers
\* Python values of the serialized data: a uuid.UUID object, the str() of a
\* value, and None.
UUID(hex) == [type |-> "UUID", hex |-> hex]
str(value) == [type |-> "str", of |-> value]
PyNone == [type |-> "NoneType"]

DishName == (1 :> "Jollof Rice") @@ (2 :> "Moi Moi")
ExtraName == (1 :> "Extra Cheese") @@ (2 :> "Olives")

\* CartItemExtraSerializer over the rows of one cart item.
CartItemExtraSerializer(rows) ==
    [i \in DOMAIN rows |->
        [id |-> i, extra_id |-> rows[i].extra,
         extra_name |-> ExtraName[rows[i].extra], quantity |-> rows[i].quantity]]

\* CartItemSerializer(instance).data for the cart item k: the declared
\* fields, the method fields giving what their methods return.
CartItemSerializer(cs, its, k) ==
    [id |-> k,
     dish_id |-> its[k].dish,
     cart_code |-> UUID(cs[its[k].cart].cart_code),
     dish_name |-> DishName[its[k].dish],
     quantity |-> its[k].quantity,
     unit_price |-> its[k].unit_price,
     total_price |-> its[k].total_price,
     extra_items |-> CartItemExtraSerializer(its[k].extra_items),
     special_instruction |-> its[k].special_instruction,
     delivery_option |-> cs[its[k].cart].order_type]

\* CartSerializer(instance).data for the cart c (created_at left out: the
\* store keeps no creation time).
CartSerializer(cs, its, c) ==
    LET mine == SelectSeq([k \in DOMAIN its |-> k], LAMBDA k : its[k].cart = c) IN
    [id |-> c,
     cart_code |-> str(UUID(cs[c].cart_code)),
     user |-> IF cs[c].user = NoUser THEN PyNone ELSE str(cs[c].user),
     paid |-> cs[c].paid,
     order_type |-> cs[c].order_type,
     items |-> [i \in DOMAIN mine |-> CartItemSerializer(cs, its, mine[i])]]

\* CartItemSerializer(instance=cart_item).data is read.
SerializeItem ==
    /\ \E k \in DOMAIN items :
         last' = [op |-> "CartItemSerializer", item |-> k, status |-> 200,
                  data |-> CartItemSerializer(carts, items, k),
                  before |-> Store(carts, items)]
    /\ UNCHANGED <<carts, items, nops, attrs, txn, auth, menu, desk>>

\* CartSerializer(instance=cart).data is read.
SerializeCart ==
    /\ \E c \in DOMAIN carts :
         last' = [op |-> "CartSerializer", cart |-> c, status |-> 200,
                  data |-> CartSerializer(carts, items, c),
                  before |-> Store(carts, items)]
    /\ UNCHANGED <<carts, items, nops, attrs, txn, auth, menu, desk>>

SpecStat == Init /\ [][AddItem \/ GetCartStat]_vars

SpecAuth == Init /\ [][NextAuth]_vars

SpecReset == Init /\ [][NextReset]_vars

SpecMenu == Init /\ [][NextMenu]_vars

SpecBooking == Init /\ [][CreateBooking]_vars

SpecCategory == Init /\ [][NextCategory]_vars

SpecProfile == Init /\ [][NextProfile]_vars

Next == AddItem \/ CreateItem \/ UpdateItem

Spec == Init /\ [][Next]_vars

\* The add_item endpoint alone.
SpecAdd == Init /\ [][AddItem]_vars

\* CartItemWriteSerializer.validate applied to every attrs of PriceInputs.
InitPrice ==
    /\ carts = <<>>
    /\ items = <<>>
    /\ last = NoRequest
    /\ nops = 0
    /\ attrs \in {[validated |-> FALSE, given |-> g] : g \in PriceInputs}
    /\ txn = [p \in Procs |-> IdleTxn]
    /\ SiteInit

Validate ==
    /\ ~attrs.validated
    /\ LET v == validate(attrs.given.dish, attrs.given.quantity,
                         attrs.given.extra_items)
       IN attrs' = [validated |-> TRUE, given |-> attrs.given, ok |-> v.ok,
                    unit_price |-> v.unit_price, total_price |-> v.total_price]
    /\ UNCHANGED <<carts, items, last, nops, txn, auth, menu, desk>>

SpecPrice == InitPrice /\ [][Validate]_vars

\* ------------------------------------------------- add_item, interleaved
\* The bodies of the requests in flight: each gets past lines 49-54.
ConcRequests ==
    [cart_code : ValidCodes, dish_id : DishIds, quantity : {Absent, "2"},
     note : {Absent}, orderoption : {"pickup", "dine-in"},
     extra_items : {NoExtras}]

Others(p) == Procs \ {p}

\* The rows a transaction reads: the committed rows and the rows it inserted.
VisibleCarts(p) == {i \in DOMAIN carts : \A q \in Others(p) : i \notin txn[q].newCarts}
VisibleItems(p) == {i \in DOMAIN items : \A q \in Others(p) : i \notin txn[q].newItems}
HiddenCarts(p) == UNION {txn[q].newCarts : q \in Others(p)}

\* Mutant: cart_code without unique=True.
NoUniqueIndex(cs, ids, code) == TRUE

\* The unique index on Cart.cart_code: none of the rows ids holds the code.
UniqueIndex(cs, ids, code) == \A i \in ids : cs[i].cart_code # code

\* A row another transaction rewrote or inserted is locked until it commits.
CartLocked(p, i) ==
    \E q \in Others(p) : i \in txn[q].newCarts \/ \E w \in txn[q].cartWrites : w.id = i
ItemLocked(p, i) ==
    \E q \in Others(p) : i \in txn[q].newItems \/ \E w \in txn[q].itemWrites : w.id = i

\* The rows of a table after the writes of a committing transaction.
Written(rows, writes) ==
    [i \in DOMAIN rows |->
        IF \E w \in writes : w.id = i
        THEN (CHOOSE w \in writes : w.id = i).row ELSE rows[i]]

Step(p, t) == txn' = [txn EXCEPT ![p] = t]

\* A request arrives (lines 49-54 passed) and its transaction begins.
CBegin(p) ==
    /\ txn[p].pc = "idle"
    /\ \E req \in ConcRequests : Step(p, [txn[p] EXCEPT !.pc = "cart_get", !.req = req])
    /\ UNCHANGED <<carts, items, last, nops, attrs, auth, menu, desk>>

\* get_or_create: the SELECT.
CCartGet(p) ==
    /\ txn[p].pc = "cart_get"
    /\ LET found == {i \in VisibleCarts(p) : carts[i].cart_code = txn[p].req.cart_code} IN
       IF found = {}
       THEN Step(p, [txn[p] EXCEPT !.pc = "cart_insert"])
       ELSE LET c == CHOOSE i \in found : TRUE IN
            Step(p, [txn[p] EXCEPT !.pc = "order", !.cart = c, !.cartobj = carts[c]])
    /\ UNCHANGED <<carts, items, last, nops, attrs, auth, menu, desk>>

\* get_or_create: the INSERT.  It waits while another transaction holds an
\* uncommitted row with the code, and fails with IntegrityError when a
\* visible row holds it.
CCartInsert(p) ==
    /\ txn[p].pc = "cart_insert"
    /\ UniqueIndex(carts, HiddenCarts(p), txn[p].req.cart_code)
    /\ IF UniqueIndex(carts, VisibleCarts(p), txn[p].req.cart_code)
       THEN /\ carts' = Append(carts, NewCart(txn[p].req.cart_code))
            /\ Step(p, [txn[p] EXCEPT !.pc = "order", !.cart = Len(carts) + 1,
                                      !.cartobj = NewCart(txn[p].req.cart_code),
                                      !.newCarts = @ \cup {Len(carts) + 1}])
       ELSE /\ carts' = carts
            /\ Step(p, [txn[p] EXCEPT !.pc = "cart_reget", !.conflict = TRUE])
    /\ UNCHANGED <<items, last, nops, attrs, auth, menu, desk>>

\* get_or_create after IntegrityError: the second SELECT finds the row the
\* other transaction committed.
CCartReget(p) ==
    /\ txn[p].pc = "cart_reget"
    /\ \E c \in VisibleCarts(p) :
         /\ carts[c].cart_code = txn[p].req.cart_code
         /\ Step(p, [txn[p] EXCEPT !.pc = "order", !.cart = c, !.cartobj = carts[c]])
    /\ UNCHANGED <<carts, items, last, nops, attrs, auth, menu, desk>>

\* get_or_create after IntegrityError under an isolation level whose snapshot
\* does not show the row: the IntegrityError is raised again and the view
\* answers 400.
CCartRegetFails(p) ==
    /\ txn[p].pc = "cart_reget"
    /\ Step(p, [txn[p] EXCEPT !.pc = "commit", !.status = 400])
    /\ UNCHANGED <<carts, items, last, nops, attrs, auth, menu, desk>>

\* Lines 59-62: cart.save() writes the in-memory cart when the option is one
\* of the choices.
COrder(p) ==
    /\ txn[p].pc = "order"
    /\ LET c == txn[p].cart
           obj == SetOrderType(<<txn[p].cartobj>>, 1, Lower(txn[p].req.orderoption))[1]
       IN IF Lower(txn[p].req.orderoption) \notin ORDER_TYPES
          THEN /\ carts' = carts
               /\ Step(p, [txn[p] EXCEPT !.pc = "dish"])
          ELSE /\ ~CartLocked(p, c)
               /\ IF c \in txn[p].newCarts
                  THEN /\ carts' = [carts EXCEPT ![c] = obj]
                       /\ Step(p, [txn[p] EXCEPT !.pc = "dish", !.cartobj = obj])
                  ELSE /\ carts' = carts
                       /\ Step(p, [txn[p] EXCEPT
                                     !.pc = "dish", !.cartobj = obj,
                                     !.cartWrites = {w \in @ : w.id # c}
                                                    \cup {[id |-> c, row |-> obj]}])
    /\ UNCHANGED <<items, last, nops, attrs, auth, menu, desk>>

\* Line 65: Dish.objects.get.
CDish(p) ==
    /\ txn[p].pc = "dish"
    /\ IF DishExists(txn[p].req.dish_id)
       THEN Step(p, [txn[p] EXCEPT !.pc = "item_get"])
       ELSE Step(p, [txn[p] EXCEPT !.pc = "commit", !.status = 404])
    /\ UNCHANGED <<carts, items, last, nops, attrs, auth, menu, desk>>

\* Lines 68-71, get_or_create: the SELECT.
CItemGet(p) ==
    /\ txn[p].pc = "item_get"
    /\ LET found == ItemsOf(items, txn[p].cart, IntOf(txn[p].req.dish_id))
                    \cap VisibleItems(p)
       IN IF found = {} THEN Step(p, [txn[p] EXCEPT !.pc = "item_insert"])
          ELSE IF Cardinality(found) = 1
          THEN LET k == CHOOSE i \in found : TRUE IN
               Step(p, [txn[p] EXCEPT !.pc = "item_save", !.item = k,
                                      !.itemobj = items[k]])
          ELSE Step(p, [txn[p] EXCEPT !.pc = "commit", !.status = 400])
    /\ UNCHANGED <<carts, items, last, nops, attrs, auth, menu, desk>>

\* Lines 68-71, get_or_create: the INSERT (CartItem has no unique index).
CItemInsert(p) ==
    /\ txn[p].pc = "item_insert"
    /\ LET row == NewCartItem(txn[p].cart, IntOf(txn[p].req.dish_id)) IN
       /\ items' = Append(items, row)
       /\ Step(p, [txn[p] EXCEPT !.pc = "item_save", !.item = Len(items) + 1,
                                 !.itemobj = row,
                                 !.newItems = @ \cup {Len(items) + 1}])
    /\ UNCHANGED <<carts, last, nops, attrs, auth, menu, desk>>

\* Lines 73-102: cart_item.save() and the 201 response.
CItemSave(p) ==
    /\ txn[p].pc = "item_save"
    /\ ~ItemLocked(p, txn[p].item)
    /\ LET k == txn[p].item
           obj == SaveCartItem(<<txn[p].itemobj>>, 1,
                               IF txn[p].req.quantity = Absent THEN 1
                               ELSE IntOf(txn[p].req.quantity),
                               txn[p].req.note)[1]
       IN IF k \in txn[p].newItems
          THEN /\ items' = [items EXCEPT ![k] = obj]
               /\ Step(p, [txn[p] EXCEPT !.pc = "commit", !.status = 201,
                                         !.itemobj = obj])
          ELSE /\ items' = items
               /\ Step(p, [txn[p] EXCEPT
                             !.pc = "commit", !.status = 201, !.itemobj = obj,
                             !.itemWrites = {w \in @ : w.id # k}
                                            \cup {[id |-> k, row |-> obj]}])
    /\ UNCHANGED <<carts, last, nops, attrs, auth, menu, desk>>

\* The view returns its Response and transaction.atomic commits.
CCommit(p) ==
    /\ txn[p].pc = "commit"
    /\ carts' = Written(carts, txn[p].cartWrites)
    /\ items' = Written(items, txn[p].itemWrites)
    /\ Step(p, [txn[p] EXCEPT !.pc = "done", !.newCarts = {}, !.newItems = {},
                              !.cartWrites = {}, !.itemWrites = {}])
    /\ UNCHANGED <<last, nops, attrs, auth, menu, desk>>

Begin == \E p \in Procs : CBegin(p)
CartGet == \E p \in Procs : CCartGet(p)
CartInsert == \E p \in Procs : CCartInsert(p)
CartReget == \E p \in Procs : CCartReget(p)
CartRegetFails == \E p \in Procs : CCartRegetFails(p)
Order == \E p \in Procs : COrder(p)
DishGet == \E p \in Procs : CDish(p)
ItemGet == \E p \in Procs : CItemGet(p)
ItemInsert == \E p \in Procs : CItemInsert(p)
ItemSave == \E p \in Procs : CItemSave(p)
Commit == \E p \in Procs : CCommit(p)

NextConc ==
    \/ Begin \/ CartGet \/ CartInsert \/ CartReget \/ CartRegetFails \/ Order
    \/ DishGet \/ ItemGet \/ ItemInsert \/ ItemSave \/ Commit

SpecConc == Init /\ [][NextConc]_vars

\* --------------------------------------- add_item beside the admin site
\* The requests that came before the concurrent ones: none, one that found
\* no dish and left its cart, or one that left a cart with an item.
EarlierRequests == {PlainBody, [PlainBody EXCEPT !.dish_id = "9"]}

\* The stores the concurrent requests start from: the empty store, or the
\* store an earlier add_item request left when it had ended.
InitRace ==
    /\ \E out \in {Outcome(<<>>, <<>>, 0, FALSE)}
                  \cup {TransactionAtomic(<<>>, <<>>, add_dish(<<>>, <<>>, req)) :
                            req \in EarlierRequests} :
         /\ carts = out.carts
         /\ items = out.items
    /\ last = NoRequest
    /\ nops = 0
    /\ attrs = NoAttrs
    /\ txn = [p \in Procs |-> IdleTxn]
    /\ SiteInit

\* Concurrent add_item requests on a store that may already hold their cart.
SpecRace == InitRace /\ [][NextConc]_vars

\* The values CartAdmin's change form can give the paid flag and the owner of
\* a cart nobody is writing: a checkout marks it paid, an account claims it.
Owners == {"u1"}
AdminEdits(row) ==
    {[row EXCEPT !.paid = TRUE]} \cup {[row EXCEPT !.user = u] : u \in Owners}

\* CartAdmin saves one cart from its change form, in a transaction of its own.
AdminSave ==
    /\ \E i \in DOMAIN carts :
         /\ \A p \in Procs : i \notin txn[p].newCarts /\ ~CartLocked(0, i)
         /\ \E row \in AdminEdits(carts[i]) :
              /\ row # carts[i]
              /\ carts' = [carts EXCEPT ![i] = row]
    /\ UNCHANGED <<items, last, nops, attrs, txn, auth, menu, desk>>

NextFrame == NextConc \/ AdminSave

SpecFrame == Init /\ [][NextFrame]_vars

\* Cart items added, carts edited in the admin site, and both serialized.
NextShow == AddItem \/ AdminSave \/ SerializeItem \/ SerializeCart

SpecShow == Init /\ [][NextShow]_vars

\* ------------------------------------------------------------------ claims
\* What the claims read from a request and from the store.
RECURSIVE RowsTotal(_)
RowsTotal(rows) ==
    IF rows = <<>> THEN 0
    ELSE ExtraPrice[Head(rows).extra] * Head(rows).quantity + RowsTotal(Tail(rows))

QuantityOk(tok) == tok = Absent \/ IsInt(tok)
QuantityOf(tok) == IF tok = Absent THEN 1 ELSE IntOf(tok)

\* The request gets as far as a resolved cart.
ResolvesCart(req) ==
    QuantityOk(req.quantity) /\ req.orderoption # Absent /\ req.cart_code \in ValidCodes

CartIdOf(cs, code) == CHOOSE c \in DOMAIN cs : cs[c].cart_code = code
OrderTypeBefore(req) ==
    IF CartsWithCode(last.before.carts, req.cart_code) = {} THEN "delivery"
    ELSE last.before.carts[CartIdOf(last.before.carts, req.cart_code)].order_type

\* The cart items a store holds for the request's (cart_code, dish_id).
ItemsFor(st, req) ==
    {k \in DOMAIN st.items :
        /\ st.items[k].dish = IntOf(req.dish_id)
        /\ st.carts[st.items[k].cart].cart_code = req.cart_code}

AddSucceeded == last.op = "add_item" /\ last.status = 201
AddFailed == last.op = "add_item" /\ last.status # 201

\* C1: every stored CartItem's total_price equals unit_price x quantity plus
\* the sum of extra.price x quantity over its CartItemExtra rows.
C1_TotalPriceIsComputed ==
    \A k \in DOMAIN items :
        items[k].total_price =
            items[k].unit_price * items[k].quantity + RowsTotal(items[k].extra_items)

\* C2: an add_item request that ends with an error response leaves the store
\* exactly as it was before the request.
C2_AddItemAllOrNothing ==
    AddFailed => Store(carts, items) = last.before

\* C3: add_item keeps at most one CartItem per (cart code, dish); a request
\* for a pair that already has an item keeps the number of rows and overwrites
\* the item's quantity, and its note when one is given.
C3_OneItemPerPair ==
    /\ \A i, j \in DOMAIN items :
          (/\ carts[items[i].cart].cart_code = carts[items[j].cart].cart_code
           /\ items[i].dish = items[j].dish) => i = j
    /\ AddSucceeded =>
          \A k \in ItemsFor(last.before, last.req) :
              /\ Len(items) = Len(last.before.items)
              /\ items[k].quantity = QuantityOf(last.req.quantity)
              /\ items[k].special_instruction =
                    IF last.req.note \in {Absent, ""}
                    THEN last.before.items[k].special_instruction
                    ELSE last.req.note

\* C3 witness: a successful add_item for a pair that already had an item
\* changed that item's quantity and created no row.
C3_Witness ==
    /\ AddSucceeded
    /\ \E k \in ItemsFor(last.before, last.req) :
          /\ items[k].quantity # last.before.items[k].quantity
          /\ Len(items) = Len(last.before.items)

\* The quantity the last entry of the payload that names the extra supplies.
LastQuantityFor(entries, extra) ==
    LET named == {i \in DOMAIN entries :
                     ExtraExists(entries[i].id) /\ IntOf(entries[i].id) = extra}
        i == CHOOSE n \in named : \A m \in named : m <= n
    IN QuantityOf(entries[i].quantity)

\* C4: no CartItem has two CartItemExtra rows for the same ExtraItem; a
\* successful add_item leaves, for every extra it names, one row with the
\* supplied quantity, and repeating the request changes nothing.
C4_NoDuplicateExtras ==
    /\ \A k \in DOMAIN items :
          \A i, j \in DOMAIN items[k].extra_items :
              items[k].extra_items[i].extra = items[k].extra_items[j].extra => i = j
    /\ AddSucceeded =>
          /\ \A k \in ItemsFor(Store(carts, items), last.req) :
                \A e \in DOMAIN last.req.extra_items.entries :
                    LET x == IntOf(last.req.extra_items.entries[e].id) IN
                    \E i \in DOMAIN items[k].extra_items :
                        /\ items[k].extra_items[i].extra = x
                        /\ items[k].extra_items[i].quantity =
                              LastQuantityFor(last.req.extra_items.entries, x)
          /\ LET again == add_dish(carts, items, last.req) IN
             Store(again.carts, again.items) = Store(carts, items)

\* The entries of a payload whose identifier names an existing ExtraItem.
Resolving(entries) == SelectSeq(entries, LAMBDA e : ExtraExists(e.id))

\* A request that is in order except that its extras map names, by a
\* numeric identifier, at least one ExtraItem that does not exist.
HasUnresolvedExtra(req) ==
    /\ ResolvesCart(req)
    /\ DishExists(req.dish_id)
    /\ req.extra_items.kind = "dict"
    /\ \A i \in DOMAIN req.extra_items.entries :
          LET e == req.extra_items.entries[i] IN
          IsInt(e.id) /\ (ExtraExists(e.id) => QuantityOk(e.quantity))
    /\ \E i \in DOMAIN req.extra_items.entries :
          ~ExtraExists(req.extra_items.entries[i].id)

\* C6: an add_item request whose extras map names an ExtraItem that does not
\* exist answers 201 and leaves the store the same request without the
\* unresolved entries leaves.
C6_UnresolvedExtraSkipped ==
    (last.op = "add_item" /\ HasUnresolvedExtra(last.req)) =>
        /\ last.status = 201
        /\ LET sent == [last.req EXCEPT !.extra_items.entries = Resolving(@)]
               without == add_dish(last.before.carts, last.before.items, sent)
           IN Store(carts, items) = Store(without.carts, without.items)

\* A quantity that is supplied and is zero, negative or not an integer.
BadQuantity(tok) == tok # Absent /\ (~IsInt(tok) \/ IntOf(tok) < 1)
HasBadQuantity(req) ==
    \/ BadQuantity(req.quantity)
    \/ \E i \in DOMAIN req.extra_items.entries :
          BadQuantity(req.extra_items.entries[i].quantity)

\* C8: every stored CartItem and CartItemExtra has quantity >= 1, and an
\* add_item request with a zero, negative or non-integer quantity is rejected
\* without changing the store.
C8_QuantitiesPositive ==
    /\ \A k \in DOMAIN items :
          /\ items[k].quantity >= 1
          /\ \A i \in DOMAIN items[k].extra_items :
                items[k].extra_items[i].quantity >= 1
    /\ (last.op = "add_item" /\ HasBadQuantity(last.req)) =>
          last.status # 201 /\ Store(carts, items) = last.before

\* The request is in order apart from its order option and carries no extras.
PlainRequest(req) ==
    /\ QuantityOk(req.quantity)
    /\ req.cart_code \in ValidCodes
    /\ DishExists(req.dish_id)
    /\ ~Truthy(req.extra_items)

\* C9 as stated: the resolved cart's order_type becomes the supplied option
\* exactly when that option is pickup or delivery, any other supplied option
\* leaves it unchanged without failing the request, and order_type is always
\* pickup or delivery.
C9_OrderTypeAsSupplied ==
    /\ \A c \in DOMAIN carts : carts[c].order_type \in ORDER_TYPES
    /\ (last.op = "add_item" /\ ResolvesCart(last.req)) =>
          /\ carts[CartIdOf(carts, last.req.cart_code)].order_type =
                IF last.req.orderoption \in ORDER_TYPES THEN last.req.orderoption
                ELSE OrderTypeBefore(last.req)
          /\ (last.req.orderoption \notin ORDER_TYPES /\ PlainRequest(last.req))
                => last.status = 201

\* C9 amended: the resolved cart's order_type becomes the lower-cased option
\* exactly when the lower-cased option is pickup or delivery, any other
\* supplied option leaves it unchanged without failing the request, and
\* order_type is always pickup or delivery.
C9_OrderTypeLowerCased ==
    /\ \A c \in DOMAIN carts : carts[c].order_type \in ORDER_TYPES
    /\ (last.op = "add_item" /\ ResolvesCart(last.req)) =>
          /\ carts[CartIdOf(carts, last.req.cart_code)].order_type =
                IF Lower(last.req.orderoption) \in ORDER_TYPES
                THEN Lower(last.req.orderoption)
                ELSE OrderTypeBefore(last.req)
          /\ (Lower(last.req.orderoption) \notin ORDER_TYPES
                /\ PlainRequest(last.req)) => last.status = 201

\* C9 witness: add_item with the option "Delivery" moved a pickup cart to
\* delivery.
C9_Witness ==
    /\ AddSucceeded
    /\ last.req.orderoption = "Delivery"
    /\ OrderTypeBefore(last.req) = "pickup"
    /\ carts[CartIdOf(carts, last.req.cart_code)].order_type = "delivery"

\* C10: an add_item request without orderoption, otherwise in order, answers
\* 201, stores the cart item and leaves the cart's order_type as it was
\* (delivery for a new cart).
C10_OrderOptionOptional ==
    (last.op = "add_item" /\ last.req.orderoption = Absent
        /\ PlainRequest(last.req)) =>
        /\ last.status = 201
        /\ ItemsFor(Store(carts, items), last.req) # {}
        /\ carts[CartIdOf(carts, last.req.cart_code)].order_type =
              OrderTypeBefore(last.req)

\* The sum of price x quantity over the entries, of those in S, whose extra
\* exists; an entry without a quantity counts once.
RECURSIVE ResolvedSum(_, _)
ResolvedSum(entries, S) ==
    IF S = {} THEN 0
    ELSE
      LET i == CHOOSE n \in S : TRUE
          e == entries[i]
      IN (IF ExtraExists(e.id)
          THEN ExtraPrice[IntOf(e.id)] * QuantityOf(e.quantity) ELSE 0)
         + ResolvedSum(entries, S \ {i})

\* The example of the specification: dish price 100.00, quantity 2, one extra
\* priced 1.50 at quantity 2.
IsExample(given) ==
    /\ DishPrice[given.dish] = 10000
    /\ given.quantity = "2"
    /\ given.extra_items.entries = <<[id |-> "1", quantity |-> "2"]>>
    /\ ExtraPrice[1] = 150

\* C7: the total validate() computes is dish.price x quantity plus the sum of
\* extra.price x quantity over exactly the entries whose extra exists, an
\* entry without quantity counting once; the example gives 203.00.
C7_TotalPriceFormula ==
    (attrs.validated /\ attrs.ok) =>
        /\ attrs.unit_price = DishPrice[attrs.given.dish]
        /\ attrs.total_price =
              DishPrice[attrs.given.dish] * QuantityOf(attrs.given.quantity)
              + ResolvedSum(attrs.given.extra_items.entries,
                            DOMAIN attrs.given.extra_items.entries)
        /\ IsExample(attrs.given) => attrs.total_price = 20300

\* C7 witness: validate() has priced the example at 203.00.
C7_Witness ==
    attrs.validated /\ attrs.ok /\ IsExample(attrs.given) /\ attrs.total_price = 20300

AllDone == \A p \in Procs : txn[p].pc = "done"

\* C5: concurrent add_item requests never leave two Cart rows with one code;
\* when all have ended there is exactly one Cart row for each code they
\* carried, and every request that answered 201 has its item in that cart.
C5_OneCartPerCode ==
    /\ \A i, j \in DOMAIN carts : carts[i].cart_code = carts[j].cart_code => i = j
    /\ AllDone =>
          \A p \in Procs :
              /\ Cardinality(CartsWithCode(carts, txn[p].req.cart_code)) = 1
              /\ txn[p].status = 201 =>
                    /\ txn[p].item \in DOMAIN items
                    /\ items[txn[p].item].cart =
                          CartIdOf(carts, txn[p].req.cart_code)

\* C5 witness: two requests for one unknown code have ended with 201, one of
\* them after its INSERT met the other's row.
C5_Witness ==
    /\ AllDone
    /\ \E p, q \in Procs :
          /\ p # q
          /\ txn[p].req.cart_code = txn[q].req.cart_code
          /\ txn[p].status = 201 /\ txn[q].status = 201
          /\ txn[q].conflict
          /\ txn[p].cart = txn[q].cart

\* The attributes of a cart that add_item has no business with.
Framed(row) ==
    [paid |-> row.paid, is_active |-> row.is_active, user |-> row.user,
     cart_code |-> row.cart_code]

\* C11: the commit of an add_item request leaves paid, is_active, user and
\* cart_code of every cart as the store held them just before the commit,
\* also when the admin site changed the cart after the request read it.
C11_CommitKeepsCartAttributes ==
    [][\A p \in Procs :
          CCommit(p) => \A i \in DOMAIN carts : Framed(carts'[i]) = Framed(carts[i])]_vars

Statuses == {201, 400, 404}

StatDone == last.op = "get_cart_stat"

\* C13: get_cart_stat answers 400 without a cart_code, 404 for every supplied
\* code that resolves to no cart, whatever its form, and 200 with the cart's
\* summary otherwise; the store is as it was before the request.
C13_CartStatOutcomes ==
    StatDone =>
        LET code == last.req.cart_code
            found == CartsWithCode(last.before.carts, code)
        IN /\ Store(carts, items) = last.before
           /\ code \in {Absent, ""} => last.status = 400
           /\ code \notin {Absent, ""} /\ found = {} => last.status = 404
           /\ code \notin {Absent, ""} /\ found # {} =>
                 /\ last.status = 200
                 /\ last.body.cart_code = code
                 /\ last.body.number_of_items =
                       SumQuantities(items, CartIdOf(carts, code))

\* ------------------------------------------------------ claims: userauth
Mismatched == resp.op = "register" /\ resp.req.password # resp.req.confirm_password
NothingDone == resp.changed = {} /\ resp.mail = {} /\ ~resp.jwt

\* C14 as stated: a registration whose passwords differ is rejected with a
\* validation error keyed on confirm_password; no account is created, no
\* verification email or token is issued.
C14_MismatchKeyedOnConfirm ==
    Mismatched =>
        resp.status = 400 /\ "confirm_password" \in resp.errors /\ NothingDone

\* C14: a registration whose passwords differ is rejected with a validation
\* error and nothing is created or sent; the error is keyed on
\* confirm_password alone when every field passed its own validation, and on
\* the failing fields otherwise.
C14_MismatchRejected ==
    Mismatched =>
        /\ resp.status = 400 /\ resp.errors # {} /\ NothingDone
        /\ \/ resp.errors = {"confirm_password"}
           \/ /\ resp.errors \subseteq {"email", "password", "confirm_password"}
              /\ \/ "email" \in resp.errors
                 \/ PasswordLength[resp.req.password] < MinLength
                 \/ PasswordLength[resp.req.confirm_password] < MinLength
        /\ (/\ "email" \notin resp.errors
            /\ PasswordLength[resp.req.password] >= MinLength
            /\ PasswordLength[resp.req.confirm_password] >= MinLength)
           => resp.errors = {"confirm_password"}

\* C14 witness: with an account already registered, a registration for a new
\* email whose passwords differ was rejected on confirm_password.
C14_Witness ==
    /\ Mismatched /\ resp.errors = {"confirm_password"}
    /\ \E e \in Emails : accounts[e].exists /\ e # resp.req.email

TokenAge == resp.at - resp.req.token.ts
TokenGood == resp.req.token.sig = "signed" /\ TokenAge <= MAX_AGE

\* C15: verify_email_view marks an account verified only on a token signed
\* over that account's email and at most 300 seconds old; an older token or
\* one with a bad signature answers 400 'Invalid or expired token' and no
\* account changes.
C15_ExpiryEnforced ==
    resp.op = "verify" =>
        /\ resp.changed # {} =>
              TokenGood /\ resp.changed = {resp.req.token.email}
        /\ resp.req.token # NoToken /\ ~TokenGood =>
              /\ resp.status = 400
              /\ resp.errors = {"Invalid or expired token"}
              /\ resp.changed = {}

\* C15 witness: a token the server signed was presented more than 300
\* seconds later, for an account still unverified, and was refused.
C15_Witness ==
    /\ resp.op = "verify" /\ resp.req.token.sig = "signed"
    /\ TokenAge > MAX_AGE
    /\ resp.row.exists /\ ~resp.row.is_verified
    /\ resp.status = 400

\* C16: login_view returns tokens exactly when the credentials match an
\* active account that is verified when the view reads it; otherwise it
\* answers an authentication or validation error without tokens.
C16_LoginNeedsVerified ==
    resp.op = "login" =>
        /\ resp.jwt <=>
              /\ resp.row.exists
              /\ check_password(resp.req.password, resp.row.password)
              /\ resp.row.is_active
              /\ resp.row.is_verified
        /\ resp.jwt => resp.status = 200
        /\ ~resp.jwt => resp.status \in {400, 401}

\* C16 witness: the right password for an active account that is not
\* verified was refused.
C16_Witness ==
    /\ resp.op = "login" /\ ~resp.jwt /\ resp.status = 400
    /\ resp.row.exists /\ resp.row.is_active /\ ~resp.row.is_verified
    /\ check_password(resp.req.password, resp.row.password)

ResetAllowed ==
    /\ resp.req.token # NoToken
    /\ resp.req.password # Absent /\ resp.req.confirm_password # Absent
    /\ resp.req.password = resp.req.confirm_password
    /\ TokenGood
    /\ resp.row.exists

\* C19: verify_password_reset_token_view changes a password only when the
\* three fields are present, the passwords are equal, the token is signed and
\* not too old and its account exists, and then only that account changes;
\* in every other case it answers 400 and no account changes.
C19_ResetOnlyWhenAllowed ==
    resp.op = "confirm_reset" =>
        /\ resp.changed # {} =>
              ResetAllowed /\ resp.changed = {resp.req.token.email}
        /\ ~ResetAllowed => resp.status = 400 /\ resp.changed = {}

\* C20: request_password_reset_view emails a reset token only for an
\* existing verified account; a missing email answers 400, an unverified
\* account answers 400 with nothing sent, an unknown email gets nothing
\* sent, and no account changes.
C20_ResetMailOnlyToVerified ==
    resp.op = "request_reset" =>
        /\ resp.changed = {}
        /\ resp.mail # {} =>
              /\ resp.row.exists /\ resp.row.is_verified
              /\ resp.mail = {Mail("reset", resp.req.email,
                                   [email |-> resp.req.email, ts |-> resp.at,
                                    sig |-> "signed"])}
        /\ resp.row.exists /\ resp.row.is_verified =>
              resp.mail # {} /\ resp.status = 200
        /\ resp.req.email = Absent => resp.status = 400
        /\ resp.row.exists /\ ~resp.row.is_verified =>
              resp.status = 400 /\ resp.mail = {}
        /\ ~resp.row.exists => resp.mail = {}

\* C20 witness: a reset was requested for an existing account that is not
\* verified, and refused.
C20_Witness ==
    /\ resp.op = "request_reset" /\ resp.status = 400
    /\ resp.row.exists /\ ~resp.row.is_verified

\* ------------------------------------------------ claims: featured dishes
Featured == menu.resp
Answered == Featured.status # 0

\* C17: a response of random_featured_dish that went through the cache, hit
\* or miss, is one the operation could give without a cache on the store as
\* it is at the response: 3 dishes that are available then when more than 3
\* are, the 400 otherwise.
C17_CacheNotCorrectnessBearing ==
    Featured.source \in {"hit", "miss"} =>
        IF Cardinality(Featured.available) > SampleSize
        THEN /\ Featured.status = 200
             /\ Featured.dishes \in Samples(Featured.available)
        ELSE Featured.status = 400

\* C18: random_featured_dish answers exactly 3 distinct available dishes
\* whenever at least 3 dishes are available, and answers the 'Not enough
\* dishes to feature' error only when fewer than 3 are.
C18_ThreeWheneverThreeAvailable ==
    Answered =>
        /\ Cardinality(Featured.available) >= SampleSize =>
              /\ Featured.status = 200
              /\ Cardinality(Featured.dishes) = SampleSize
              /\ Featured.dishes \subseteq Featured.available
        /\ Featured.status = 400 => Cardinality(Featured.available) < SampleSize

\* ------------------------------------------------------- claims: bookings
Submitted == booked.status = 201
NewestBooking == bookings[Len(bookings)]

\* C21: a booking that create_booking stored carries the requester as its
\* user (no user when the requester is anonymous) and is pending, not
\* confirmed and not declined, whatever the body held.
C21_BookingOwnerAndPending ==
    Submitted =>
        /\ NewestBooking.user = booked.requester
        /\ NewestBooking.is_pending
        /\ ~NewestBooking.is_confirmed
        /\ ~NewestBooking.is_declined

\* The part of C21 about the three state flags alone.
C21_FlagsAtDefaults ==
    Submitted =>
        /\ NewestBooking.is_pending
        /\ ~NewestBooking.is_confirmed
        /\ ~NewestBooking.is_declined

\* ----------------------------------------------------- claims: categories
\* The k-th candidate of the search over a base slug.
Candidate(base_slug, k) ==
    IF k = 0 THEN base_slug ELSE base_slug \o "-" \o ToString(k)

SavedRow == categories[saved.id]

\* C22: after any sequence of Category saves done one at a time the slugs are
\* pairwise distinct; a save takes the slug of the name as base when the slug
\* is blank or the name changed and the held slug otherwise, ends on the
\* first of base, base-1, base-2, ... that no other category holds, after at
\* most as many candidates as there are categories; and saving a category
\* again unchanged leaves its slug as it was.
C22_SlugsDistinctAndStable ==
    /\ \A i, j \in 1..Len(categories) :
          i # j => categories[i].slug # categories[j].slug
    /\ saved.op # "none" =>
          /\ saved.base = IF saved.slug = "" \/ saved.renamed
                          THEN slugify(saved.name) ELSE saved.slug
          /\ SavedRow.slug = Candidate(saved.base, saved.counter - 1)
          /\ \A k \in 0..(saved.counter - 2) :
                \E i \in 1..Len(categories) :
                    i # saved.id /\ categories[i].slug = Candidate(saved.base, k)
          /\ saved.counter <= Len(categories)
          /\ saved.op = "resave" => SavedRow.slug = saved.slug

\* C22 witness: a save whose base slug and first suffixed candidate were both
\* held by other categories, so that it ended on the suffix -2.
C22_Witness ==
    /\ saved.op \in {"create", "rename"}
    /\ saved.counter = 3
    /\ SavedRow.slug = "soup-2"

\* ---------------------------------------------- claims: cart item update
\* An update body that is in order except that its extras map names, by a
\* numeric identifier, at least one ExtraItem that does not exist.
UpdateHasUnresolvedExtra(req) ==
    /\ QuantityOk(req.quantity)
    /\ req.extra_items.kind = "dict"
    /\ \A i \in DOMAIN req.extra_items.entries :
          LET e == req.extra_items.entries[i] IN
          IsInt(e.id) /\ (ExtraExists(e.id) => QuantityOk(e.quantity))
    /\ \E i \in DOMAIN req.extra_items.entries :
          ~ExtraExists(req.extra_items.entries[i].id)

\* C23: an update through CartItemUpdateWriteSerializer whose extras map
\* names an ExtraItem that does not exist completes: the item's rows are
\* replaced by one row per resolved entry, and the quantity, the note, the
\* unit price and the total price over the dish and those rows are saved.
C23_UpdateSkipsUnresolved ==
    (last.op = "update" /\ UpdateHasUnresolvedExtra(last.req)) =>
        /\ last.status = 200
        /\ LET was == last.before.items[last.item]
               it == items[last.item]
               resolved == Resolving(last.req.extra_items.entries)
           IN /\ it.quantity = IF last.req.quantity = Absent THEN was.quantity
                               ELSE IntOf(last.req.quantity)
              /\ it.special_instruction = IF last.req.note = Absent
                                          THEN was.special_instruction
                                          ELSE last.req.note
              /\ Len(it.extra_items) = Len(resolved)
              /\ \A i \in DOMAIN resolved :
                    it.extra_items[i] =
                        NewCartItemExtra(IntOf(resolved[i].id),
                                         QuantityOf(resolved[i].quantity))
              /\ it.unit_price = DishPrice[it.dish]
              /\ it.total_price =
                    it.unit_price * it.quantity + RowsTotal(it.extra_items)

\* The update that C23 describes does happen when every entry resolves.
C23_ResolvedUpdateCompletes ==
    ( /\ last.op = "update"
      /\ QuantityOk(last.req.quantity)
      /\ last.req.extra_items.kind = "dict"
      /\ \A i \in DOMAIN last.req.extra_items.entries :
            LET e == last.req.extra_items.entries[i] IN
            IsInt(e.id) /\ ExtraExists(e.id) /\ QuantityOk(e.quantity) ) =>
        /\ last.status = 200
        /\ LET it == items[last.item] IN
           /\ Len(it.extra_items) = Len(last.req.extra_items.entries)
           /\ it.total_price =
                 it.unit_price * it.quantity + RowsTotal(it.extra_items)

\* ---------------------------------------------- claims: read serializers
Shown == last.data
ShownCarts == last.before.carts     \* the store the serializer read
ShownItems == last.before.items

\* C24: CartItemSerializer gives the owning cart's code as a string under
\* cart.cart_code, the dish's name under dish.name and the stored quantity
\* under quantity; CartSerializer gives the cart's code as a string, the
\* string form of its user and its paid flag.
C24_SerializedShape ==
    /\ last.op = "CartItemSerializer" =>
          LET it == ShownItems[last.item] IN
          /\ "cart" \in DOMAIN Shown
          /\ "dish" \in DOMAIN Shown
          /\ Shown["cart"]["cart_code"] = str(UUID(ShownCarts[it.cart].cart_code))
          /\ Shown["dish"]["name"] = DishName[it.dish]
          /\ Shown.quantity = it.quantity
    /\ last.op = "CartSerializer" =>
          /\ Shown.cart_code = str(UUID(ShownCarts[last.cart].cart_code))
          /\ ShownCarts[last.cart].user # NoUser =>
                Shown.user = str(ShownCarts[last.cart].user)
          /\ Shown.paid = ShownCarts[last.cart].paid

\* What the two serializers do give: the cart part of C24 as stated, and for
\* a cart item the flat keys cart_code (the UUID itself), dish_name and
\* quantity, with no cart and no dish key.
C24_FlatKeys ==
    /\ last.op = "CartItemSerializer" =>
          LET it == ShownItems[last.item] IN
          /\ {"cart", "dish"} \cap DOMAIN Shown = {}
          /\ Shown.cart_code = UUID(ShownCarts[it.cart].cart_code)
          /\ Shown.dish_name = DishName[it.dish]
          /\ Shown.quantity = it.quantity
    /\ last.op = "CartSerializer" =>
          /\ Shown.cart_code = str(UUID(ShownCarts[last.cart].cart_code))
          /\ ShownCarts[last.cart].user # NoUser =>
                Shown.user = str(ShownCarts[last.cart].user)
          /\ Shown.paid = ShownCarts[last.cart].paid

\* ------------------------------------------------- claims: token purpose
\* The request of the step presents the token that the response before it
\* mailed for the given purpose.
PresentsMailed(kind) ==
    \E m \in resp.mail : m.kind = kind /\ m.token = resp'.req.token

\* C25: a token mailed for email verification and presented to
\* verify_password_reset_token_view changes no password, and a token mailed
\* for a password reset and presented to verify_email_view marks no account
\* verified.
C25_TokensPurposeBound ==
    [][ /\ (resp'.op = "confirm_reset" /\ PresentsMailed("verify")) =>
              (resp'.status # 200 /\ accounts' = accounts)
        /\ (resp'.op = "verify" /\ PresentsMailed("reset")) =>
              accounts' = accounts ]_vars

\* ------------------------------------------- claims: verification status
\* The step is a verify_email_view request that succeeded on a token signed
\* over the email e and at most MAX_AGE seconds old.
VerifiedBy(e) ==
    /\ resp'.op = "verify" /\ resp'.status = 200
    /\ resp'.req.token.sig = "signed"
    /\ resp'.req.token.email = e
    /\ resp'.at - resp'.req.token.ts <= MAX_AGE

\* The step is a register_view request that created the account of e.
RegisteredBy(e) ==
    /\ resp'.op = "register" /\ resp'.status = 201
    /\ resp'.req.email = e
    /\ ~accounts[e].exists /\ accounts'[e].exists

\* C26: the account a registration creates is unverified whatever the body
\* carries, an account turns verified only in a verify_email_view request
\* that succeeds on an unexpired token over its email, and a verified account
\* stays verified as long as it exists.
C26_VerifiedOnlyByVerification ==
    [][ \A e \in Emails :
          /\ RegisteredBy(e) => ~accounts'[e].is_verified
          /\ (~accounts[e].is_verified /\ accounts'[e].is_verified) => VerifiedBy(e)
          /\ (accounts[e].is_verified /\ accounts'[e].exists) =>
                accounts'[e].is_verified ]_vars

\* The part of C26 that holds of every account registered without an
\* is_verified field: the same property over the steps that are not a
\* registration carrying one.
C26_UnlessRegisteredVerified ==
    [][ (\E e \in Emails : RegisteredBy(e) /\ resp'.req.is_verified # Absent)
        \/ \A e \in Emails :
             /\ RegisteredBy(e) => ~accounts'[e].is_verified
             /\ (~accounts[e].is_verified /\ accounts'[e].is_verified) =>
                   VerifiedBy(e)
             /\ (accounts[e].is_verified /\ accounts'[e].exists) =>
                   accounts'[e].is_verified ]_vars

\* -------------------------------------------------------- claims: profile
\* C27: a PATCH to the profile endpoint leaves the requester's is_staff,
\* is_superuser and is_active flags as they were, whatever the body carries,
\* and changes no other account.
C27_PatchKeepsFlags ==
    patched.op = "patch" =>
        /\ \A f \in ProfileFlags : patched.saved[f] = patched.row[f]
        /\ patched.changed \subseteq {patched.user}

\* The part of C27 about the other accounts.
C27_PatchKeepsOthers ==
    patched.op = "patch" => patched.changed \subseteq {patched.user}

\* ---------------------------------------------- claims: concurrent items
\* C28: when concurrent add_item requests have ended, there is at most one
\* CartItem per (cart, dish) and at most one CartItemExtra per (cart item,
\* extra), and the request of every one that answered 201, sent again,
\* answers 201 again.
C28_OneItemPerPairUnderRaces ==
    AllDone =>
        /\ \A i, j \in DOMAIN items :
              (items[i].cart = items[j].cart /\ items[i].dish = items[j].dish)
                  => i = j
        /\ \A k \in DOMAIN items :
              \A i, j \in DOMAIN items[k].extra_items :
                  items[k].extra_items[i].extra = items[k].extra_items[j].extra
                      => i = j
        /\ \A p \in Procs :
              txn[p].status = 201 =>
                  add_dish(carts, items, txn[p].req).status = 201

\* What does hold under races: no cart item has two rows for one extra.
C28_OneRowPerExtra ==
    \A k \in DOMAIN items :
        \A i, j \in DOMAIN items[k].extra_items :
            items[k].extra_items[i].extra = items[k].extra_items[j].extra => i = j

====
